---------------------------- MODULE Spec2Model ----------------------------
(***************************************************************************)
(* Model of OEE.py: the tag extractor (get_tags_from_plc,                  *)
(* extract_child_data_types), the tree builder (build_tag_tree_model,      *)
(* format_dimension_label), the filter (TagFilterProxyModel) and the       *)
(* fault-tag selection handlers of MainWindow, and its run and downtime    *)
(* handlers (start_clicked, stop_clicked, downtime_clicked).               *)
(*                                                                         *)
(* Python strings are sequences of one-character strings, so that          *)
(* startswith, split, f-string concatenation and substring matching are    *)
(* computed and not assumed.  A Python dict is a sequence of               *)
(* [key, value] pairs with distinct keys, in insertion order.  An optional *)
(* dict key is a set: {} when the key is missing, {v} when it maps to v.   *)
(* A datetime is a number of half seconds, so that                         *)
(* round_to_nearest_second has something to round.                         *)
(***************************************************************************)
EXTENDS Integers, Sequences, FiniteSets, TLC

VARIABLES
    data,             \* plc.tags_json, the payload get_tags_from_plc read last
    tags,             \* what get_tags_from_plc returned last: None, or the tag_list
    tag_dict,         \* the dict the model in use was built from
    model,            \* the QStandardItemModel in use: its items, in creation order
    proxy_model,      \* MainWindow.proxy_model: "None", or "proxy" over model
    tree_filter,      \* the text of the filter box
    pattern,          \* the proxy's filterRegularExpression (a fixed string)
    fault_tags,       \* MainWindow.fault_tags (pending selection)
    fault_tags_list,  \* MainWindow.fault_tags_list (accumulator)
    lastOp,           \* the function or handler that ran last
    prevOp,           \* the one that ran before it
    now,              \* datetime.now()
    events,           \* MainWindow.events, the list the DowntimeModel shows
    temp_start_time,  \* MainWindow.temp_start_time: None ({}) or a datetime
    logging_downtime, \* MainWindow.logging_downtime
    downtime_model,   \* MainWindow.model, the DowntimeModel in use
    run_start_time,   \* MainWindow.run_start_time: None ({}) or a datetime
    start_button,     \* start_button.isEnabled()
    stop_button,      \* stop_button.isEnabled()
    pause_button,     \* pause_button.isEnabled()
    downtime_button   \* downtime_button.isEnabled()

\* the variables of the tag handlers
tagVars ==
    <<data, tags, tag_dict, model, proxy_model, tree_filter, pattern, fault_tags,
      fault_tags_list>>

\* the variables of the run and downtime handlers
runVars ==
    <<now, events, temp_start_time, logging_downtime, downtime_model,
      run_start_time, start_button, stop_button, pause_button, downtime_button>>

vars == <<tagVars, runVars, lastOp, prevOp>>

---------------------------------------------------------------------------
(* Bounds *)

\* total number of tag descriptors (top-level tags and members) in a payload
MaxNodes == 3
\* number of entries of a flat catalog handed to the tree builder
MaxEntries == 3
\* length of a filter pattern
MaxPatternLen == 2
\* number of rows selected in the tree at once
MaxSelected == 2
\* the last instant of the clock, in half seconds
MaxTime == 5
\* number of downtime events of a run
MaxEvents == 2

---------------------------------------------------------------------------
(* Strings *)

StartsWith(s, p) == Len(s) >= Len(p) /\ SubSeq(s, 1, Len(p)) = p

Range(s) == {s[i] : i \in 1..Len(s)}

Underscore == <<"_">>
TenZ == <<"Z","Z","Z","Z","Z","Z","Z","Z","Z","Z">>
Dot == <<".">>

TyDINT == <<"D","I","N","T">>
TySTRING == <<"S","T","R","I","N","G">>
TyUDT == <<"U","D","T">>

\* str.join of a sequence of strings
RECURSIVE Join(_, _)
Join(sep, parts) ==
    IF parts = <<>> THEN <<>>
    ELSE IF Len(parts) = 1 THEN parts[1]
    ELSE parts[1] \o sep \o Join(sep, Tail(parts))

\* str.split(".") : the segments between the dots (empty segments kept)
RECURSIVE SplitFrom(_, _, _)
SplitFrom(s, i, cur) ==
    IF i > Len(s) THEN <<cur>>
    ELSE IF s[i] = "." THEN <<cur>> \o SplitFrom(s, i + 1, <<>>)
    ELSE SplitFrom(s, i + 1, Append(cur, s[i]))

Split(s) == SplitFrom(s, 1, <<>>)

---------------------------------------------------------------------------
(* Python dicts *)

Keys(d) == {d[i].key : i \in 1..Len(d)}

HasKey(d, k) == \E i \in 1..Len(d) : d[i].key = k

Get(d, k) == d[CHOOSE i \in 1..Len(d) : d[i].key = k].value

\* d[k] = v : an existing key keeps its position, a new key is appended
DictSet(d, k, v) ==
    IF HasKey(d, k)
    THEN [i \in 1..Len(d) |-> IF d[i].key = k THEN [key |-> k, value |-> v] ELSE d[i]]
    ELSE Append(d, [key |-> k, value |-> v])

---------------------------------------------------------------------------
(* The raw payload (plc.tags_json)                                         *)
(*                                                                         *)
(* A tag or member description is a dict with the optional keys tag_type,  *)
(* data_type, dimensions and array.  data_type is a str (an atomic type)   *)
(* or a dict with the optional keys name and internal_tags.                *)

TheOne(S) == CHOOSE x \in S : TRUE

StrType(t) == [isdict |-> FALSE, str |-> t, name |-> {}, internal_tags |-> {}]

DictType(nameOpt, membersOpt) ==
    [isdict |-> TRUE, str |-> <<>>, name |-> nameOpt, internal_tags |-> membersOpt]

Info(kindOpt, typeOpt, dimsOpt, arrayOpt) ==
    [tag_type |-> kindOpt, data_type |-> typeOpt, dimensions |-> dimsOpt, array |-> arrayOpt]

---------------------------------------------------------------------------
(* Metadata extractor *)

Meta(dt, dims, st) == [data_type |-> dt, dimensions |-> dims, structure |-> st]

\* the mutant of IsHidden: only the underscore prefix is tested
IsHidden_NoZ(child_name) == StartsWith(child_name, Underscore)

\* child_name.startswith('_') or child_name.startswith('ZZZZZZZZZZ')
IsHidden(child_name) ==
    StartsWith(child_name, Underscore) \/ StartsWith(child_name, TenZ)

\* the mutant of IsStringName: no type name is the string type
IsStringName_Never(type_name) == FALSE

\* ...['name'] == 'STRING'
IsStringName(type_name) == type_name = TySTRING

\* the outcome of a call that may raise: the dict built so far is dropped by
\* the caller's except clause
Raised == [raised |-> TRUE, array |-> <<>>]
Returned(array) == [raised |-> FALSE, array |-> array]

\* child_info['data_type'], child_info['tag_type'] : KeyError when missing
MissingRequired(info) == info.data_type = {} \/ info.tag_type = {}

\* data_type['name'] : TypeError on a str, KeyError on a dict without name
NameRaises(dt) == ~dt.isdict \/ dt.name = {}

RECURSIVE ExtractChildrenFrom(_, _, _, _)
\* the loop of extract_child_data_types from its i-th member on
ExtractChildrenFrom(structure, array, name, i) ==
    IF i > Len(structure) THEN Returned(array)
    ELSE
    LET child_name == structure[i].key
        child_info == structure[i].value
    IN  IF MissingRequired(child_info) THEN Raised
        ELSE
        LET child_data_type == TheOne(child_info.data_type)
            child_tag_type == TheOne(child_info.tag_type)
            child_array_length ==
                IF child_info.array = {} THEN 0 ELSE TheOne(child_info.array)
            full_tag_name == name \o Dot \o child_name
            dims == <<child_array_length, 0, 0>>
        IN  IF IsHidden(child_name)
            THEN ExtractChildrenFrom(structure, array, name, i + 1)
            ELSE IF child_tag_type = "atomic"
            THEN ExtractChildrenFrom(structure,
                     DictSet(array, full_tag_name, Meta(child_data_type.str, dims, FALSE)),
                     name, i + 1)
            ELSE IF child_tag_type = "struct"
            THEN IF NameRaises(child_data_type) THEN Raised
                 ELSE
                 LET type_name == TheOne(child_data_type.name)
                     stored == DictSet(array, full_tag_name,
                                   Meta(type_name, dims, ~IsStringName(type_name)))
                 IN  IF IsStringName(type_name)
                     THEN ExtractChildrenFrom(structure, stored, name, i + 1)
                     ELSE IF child_data_type.internal_tags = {} THEN Raised
                     ELSE
                     LET sub == ExtractChildrenFrom(
                                    TheOne(child_data_type.internal_tags),
                                    stored, full_tag_name, 1)
                     IN  IF sub.raised THEN Raised
                         ELSE ExtractChildrenFrom(structure, sub.array, name, i + 1)
            ELSE ExtractChildrenFrom(structure, array, name, i + 1)

extract_child_data_types(structure, array, name) ==
    ExtractChildrenFrom(structure, array, name, 1)

RECURSIVE GetTagsFrom(_, _, _)
\* the loop of get_tags_from_plc from its i-th tag on
GetTagsFrom(d, tag_list, i) ==
    IF i > Len(d) THEN Returned(tag_list)
    ELSE
    LET tag_name == d[i].key
        tag_info == d[i].value
    IN  IF MissingRequired(tag_info) THEN Raised
        ELSE
        LET tag_data_type == TheOne(tag_info.data_type)
            tag_type == TheOne(tag_info.tag_type)
            tag_dimensions ==
                IF tag_info.dimensions = {} THEN <<0, 0, 0>>
                ELSE TheOne(tag_info.dimensions)
        IN  IF tag_type = "atomic"
            THEN GetTagsFrom(d,
                     DictSet(tag_list, tag_name,
                             Meta(tag_data_type.str, tag_dimensions, FALSE)),
                     i + 1)
            ELSE IF tag_type = "struct"
            THEN IF NameRaises(tag_data_type) THEN Raised
                 ELSE
                 LET type_name == TheOne(tag_data_type.name)
                     stored == DictSet(tag_list, tag_name,
                                   Meta(type_name, tag_dimensions, ~IsStringName(type_name)))
                 IN  IF IsStringName(type_name)
                     THEN GetTagsFrom(d, stored, i + 1)
                     ELSE IF tag_data_type.internal_tags = {} THEN Raised
                     ELSE
                     LET sub == extract_child_data_types(
                                    TheOne(tag_data_type.internal_tags), stored, tag_name)
                     IN  IF sub.raised THEN Raised
                         ELSE GetTagsFrom(d, sub.array, i + 1)
            ELSE GetTagsFrom(d, tag_list, i + 1)

\* the value get_tags_from_plc returns for the payload d: None (none = TRUE)
\* when anything raised, the tag_list otherwise
get_tags_from_plc(d) ==
    LET r == GetTagsFrom(d, <<>>, 1)
    IN  IF r.raised THEN [none |-> TRUE, tag_list |-> <<>>]
        ELSE [none |-> FALSE, tag_list |-> r.array]

---------------------------------------------------------------------------
(* The payloads the extractor is checked on: every dict of tag             *)
(* descriptions with at most MaxNodes descriptions in all, over the names  *)
(* and shapes below.  The controller's tag database is built one           *)
(* description at a time; get_tags_from_plc may read it at any point.      *)

TopNames == {<<"a">>, <<"_","t">>}
MemberNames == {<<"x">>, <<"_","h">>, TenZ \o <<"r">>, <<"Z","_">>}

AtomicScalar == Info({"atomic"}, {StrType(TyDINT)}, {}, {})
AtomicArray == Info({"atomic"}, {StrType(TyDINT)}, {<<3, 2, 0>>}, {2})
\* a STRING structure, which pycomm3 describes with its LEN and DATA members
StringStruct ==
    Info({"struct"},
         {DictType({TySTRING},
                   {<< [key |-> <<"L","E","N">>, value |-> AtomicScalar],
                       [key |-> <<"D","A","T","A">>, value |-> AtomicArray] >>})},
         {}, {5})
NoTagType == Info({}, {StrType(TyDINT)}, {}, {})
NoDataType == Info({"atomic"}, {}, {}, {})
OtherKind == Info({"other"}, {StrType(TyDINT)}, {}, {})
NoInternalTags == Info({"struct"}, {DictType({TyUDT}, {})}, {}, {})
Struct(members) == Info({"struct"}, {DictType({TyUDT}, {members})}, {}, {})

Shapes ==
    {AtomicScalar, AtomicArray, StringStruct, NoTagType, NoDataType, OtherKind,
     NoInternalTags, Struct(<<>>)}

\* a description that holds a collection of members to add to
IsOpenStruct(inf) ==
    /\ inf.tag_type = {"struct"}
    /\ inf.data_type # {}
    /\ TheOne(inf.data_type).isdict
    /\ TheOne(inf.data_type).name = {TyUDT}
    /\ TheOne(inf.data_type).internal_tags # {}

OpenMembers(inf) == TheOne(TheOne(inf.data_type).internal_tags)

RECURSIVE NodeCount(_)
NodeCount(d) ==
    IF d = <<>> THEN 0
    ELSE 1 + (IF IsOpenStruct(d[1].value) THEN NodeCount(OpenMembers(d[1].value)) ELSE 0)
           + NodeCount(Tail(d))

RECURSIVE StructAddrs(_)
\* the index paths of the member collections of d (<<>> is d itself)
StructAddrs(d) ==
    {<<>>} \cup
    UNION { IF IsOpenStruct(d[i].value)
            THEN {<<i>> \o a : a \in StructAddrs(OpenMembers(d[i].value))}
            ELSE {} :
            i \in 1..Len(d) }

RECURSIVE DictAt(_, _)
DictAt(d, addr) ==
    IF addr = <<>> THEN d ELSE DictAt(OpenMembers(d[addr[1]].value), Tail(addr))

RECURSIVE AppendAt(_, _, _)
AppendAt(d, addr, e) ==
    IF addr = <<>> THEN Append(d, e)
    ELSE [d EXCEPT ![addr[1]].value =
             Struct(AppendAt(OpenMembers(d[addr[1]].value), Tail(addr), e))]

NoTags == [none |-> TRUE, tag_list |-> <<>>]

---------------------------------------------------------------------------
(* SpecExtract: get_tags_from_plc applied to every payload *)

\* dt.replace(microsecond=0), plus a second when dt.microsecond >= 500000
round_to_nearest_second(dt) == IF dt % 2 = 1 THEN (dt - 1) + 2 ELSE dt

\* DowntimeModel(self.events, run_start_time, self.update_footer), which
\* shows MainWindow.events itself
DowntimeModel(start) == [run_start_time |-> start]

DowntimeEvent(start_time, end_time, cause, nmr) ==
    [start_time |-> start_time, end_time |-> end_time, cause |-> cause, nmr |-> nmr]

\* MainWindow.__init__, before any click
Init ==
    /\ data = <<>>
    /\ tags = NoTags
    /\ tag_dict = <<>>
    /\ model = <<>>
    /\ proxy_model = "None"
    /\ tree_filter = <<>>
    /\ pattern = <<>>
    /\ fault_tags = <<>>
    /\ fault_tags_list = <<>>
    /\ lastOp = "init"
    /\ prevOp = "init"
    /\ now = 0
    /\ events = <<>>
    /\ temp_start_time = {}
    /\ logging_downtime = FALSE
    /\ downtime_model = DowntimeModel(round_to_nearest_second(now))
    /\ run_start_time = {}
    /\ start_button = TRUE
    /\ stop_button = FALSE
    /\ pause_button = FALSE
    /\ downtime_button = FALSE

InitExtract == Init

\* the controller gets one more tag, or one of its structures one more member
PlcDefinesTag ==
    /\ lastOp = "init"
    /\ NodeCount(data) < MaxNodes
    /\ \E addr \in StructAddrs(data) :
       \E nm \in (IF addr = <<>> THEN TopNames ELSE MemberNames) \ Keys(DictAt(data, addr)) :
       \E inf \in Shapes :
           data' = AppendAt(data, addr, [key |-> nm, value |-> inf])
    /\ UNCHANGED runVars
    /\ UNCHANGED <<tags, tag_dict, model, proxy_model, tree_filter, pattern,
                   fault_tags, fault_tags_list, lastOp, prevOp>>

Extract ==
    /\ lastOp = "init"
    /\ tags' = get_tags_from_plc(data)
    /\ lastOp' = "get_tags_from_plc"
    /\ prevOp' = lastOp
    /\ UNCHANGED runVars
    /\ UNCHANGED <<data, tag_dict, model, proxy_model, tree_filter, pattern,
                   fault_tags, fault_tags_list>>

NextExtract == PlcDefinesTag \/ Extract

SpecExtract == InitExtract /\ [][NextExtract]_vars

---------------------------------------------------------------------------
(* What the extractor's claims say, stated on the payload itself *)

\* a member name that denotes an internal or reserved field
HiddenName(nm) ==
    \/ Len(nm) >= 1 /\ nm[1] = "_"
    \/ Len(nm) >= 10 /\ \A i \in 1..10 : nm[i] = "Z"

IsStructInfo(inf) ==
    /\ inf.tag_type = {"struct"}
    /\ inf.data_type # {}
    /\ TheOne(inf.data_type).isdict
    /\ TheOne(inf.data_type).name # {}

TypeNameOf(inf) == TheOne(TheOne(inf.data_type).name)

IsStringInfo(inf) == IsStructInfo(inf) /\ TypeNameOf(inf) = TySTRING

\* a true structure: structured, not STRING, with its member collection
IsTrueStructInfo(inf) ==
    /\ IsStructInfo(inf)
    /\ TypeNameOf(inf) # TySTRING
    /\ TheOne(inf.data_type).internal_tags # {}

MembersOf(inf) == TheOne(TheOne(inf.data_type).internal_tags)

RECURSIVE Reached(_, _, _)
\* the descriptions the extraction is about, each with its dotted path: the
\* top-level tags and, below a true structure, the members that are not hidden
Reached(d, prefix, isTop) ==
    UNION { LET nm == d[i].key
                inf == d[i].value
                path == IF isTop THEN nm ELSE prefix \o Dot \o nm
            IN  IF ~isTop /\ HiddenName(nm) THEN {}
                ELSE {[path |-> path, info |-> inf]}
                     \cup (IF IsTrueStructInfo(inf)
                           THEN Reached(MembersOf(inf), path, FALSE)
                           ELSE {}) :
            i \in 1..Len(d) }

\* a description the spec calls malformed
Malformed(inf) ==
    \/ inf.tag_type = {}
    \/ inf.data_type = {}
    \/ inf.tag_type \notin {{"atomic"}, {"struct"}}
    \/ inf.tag_type = {"struct"} /\ ~IsStructInfo(inf)
    \/ IsStructInfo(inf) /\ TypeNameOf(inf) # TySTRING
           /\ TheOne(inf.data_type).internal_tags = {}

RECURSIVE StripHidden(_)
\* the collection of members without its hidden members, at every depth
StripHidden(members) ==
    IF members = <<>> THEN <<>>
    ELSE LET nm == members[1].key
             inf == members[1].value
             rest == StripHidden(Tail(members))
         IN  IF HiddenName(nm) THEN rest
             ELSE IF IsTrueStructInfo(inf)
             THEN <<[key |-> nm,
                     value |-> [inf EXCEPT !.data_type =
                                   {[TheOne(inf.data_type) EXCEPT !.internal_tags =
                                        {StripHidden(MembersOf(inf))}]}]]>> \o rest
             ELSE <<members[1]>> \o rest

\* the payload without any hidden member (top-level tags are not members)
WithoutHidden(d) ==
    [i \in 1..Len(d) |->
        LET inf == d[i].value
        IN  IF IsTrueStructInfo(inf)
            THEN [key |-> d[i].key,
                  value |-> [inf EXCEPT !.data_type =
                                {[TheOne(inf.data_type) EXCEPT !.internal_tags =
                                     {StripHidden(MembersOf(inf))}]}]]
            ELSE d[i]]

Extracted == lastOp = "get_tags_from_plc" /\ ~tags.none

\* the names N for which the catalog holds the path p.N (N without a dot)
ChildNames(tag_list, p) ==
    { SubSeq(k, Len(p) + 2, Len(k)) :
        k \in {k2 \in Keys(tag_list) :
                  /\ Len(k2) > Len(p) + 1
                  /\ StartsWith(k2, p \o Dot)
                  /\ \A j \in (Len(p) + 2)..Len(k2) : k2[j] # "."} }

\* the catalog holds a path beneath p
HasBeneath(tag_list, p) ==
    \E k \in Keys(tag_list) : Len(k) > Len(p) + 1 /\ StartsWith(k, p \o Dot)

\* the members of a description that the extractor records: not hidden, and
\* atomic or structured
RecordedMembers(inf) ==
    { MembersOf(inf)[i].key :
        i \in { j \in 1..Len(MembersOf(inf)) :
                  /\ ~HiddenName(MembersOf(inf)[j].key)
                  /\ MembersOf(inf)[j].value.tag_type \in {{"atomic"}, {"struct"}} } }

\* C4 as stated: every entry with structure = true at path P has an entry
\* P + "." + childName.  (Violated: a structure without members, or with
\* hidden members only, is recorded with structure = true and nothing beneath.)
C4_StructureHasChild ==
    Extracted =>
        \A i \in 1..Len(tags.tag_list) :
            tags.tag_list[i].value.structure =>
                ChildNames(tags.tag_list, tags.tag_list[i].key) # {}

\* C4 amended: an entry with structure = true at path P comes from a true
\* structure, and its child entries P.N are exactly the members N of that
\* structure that are not hidden and are atomic or structured; so it has a
\* child entry if and only if the structure has such a member.
C4_StructureChildrenAreVisibleMembers ==
    Extracted =>
        \A i \in 1..Len(tags.tag_list) :
            tags.tag_list[i].value.structure =>
                \E r \in Reached(data, <<>>, TRUE) :
                    /\ r.path = tags.tag_list[i].key
                    /\ IsTrueStructInfo(r.info)
                    /\ ChildNames(tags.tag_list, r.path) = RecordedMembers(r.info)

\* a structure entry with a hidden member and a recorded member
C4_Witness ==
    /\ Extracted
    /\ \E r \in Reached(data, <<>>, TRUE) :
          /\ IsTrueStructInfo(r.info)
          /\ HasKey(tags.tag_list, r.path)
          /\ Get(tags.tag_list, r.path).structure
          /\ RecordedMembers(r.info) # {}
          /\ \E j \in 1..Len(MembersOf(r.info)) : HiddenName(MembersOf(r.info)[j].key)

\* C5: a payload with a malformed description (a required field missing, a
\* true structure without its members, a kind that is neither atomic nor
\* structured) yields no catalog.  (Violated: a description of another kind
\* is passed over and the catalog of the other entries is returned.)
C5_MalformedYieldsNoCatalog ==
    lastOp = "get_tags_from_plc" =>
        ((\E r \in Reached(data, <<>>, TRUE) : Malformed(r.info)) => tags.none)

\* C6: hidden members are skipped entirely: the catalog is the one the
\* payload without its hidden members yields, whatever the hidden members
\* hold.  (Violated: a hidden member without data_type or tag_type makes the
\* extraction raise, since both are read before the name is tested.)
C6_HiddenMembersSkipped ==
    lastOp = "get_tags_from_plc" => tags = get_tags_from_plc(WithoutHidden(data))

\* C7: after a successful extraction, every STRING structure the extraction
\* is about has exactly one entry, of data type STRING and structure = false,
\* and nothing beneath it, although the payload gives it internal_tags.
C7_StringIsLeaf ==
    Extracted =>
        \A r \in Reached(data, <<>>, TRUE) :
            IsStringInfo(r.info) =>
                /\ Cardinality({i \in 1..Len(tags.tag_list) :
                                   tags.tag_list[i].key = r.path}) = 1
                /\ Get(tags.tag_list, r.path).data_type = TySTRING
                /\ Get(tags.tag_list, r.path).structure = FALSE
                /\ ~HasBeneath(tags.tag_list, r.path)

\* a STRING member with internal_tags, recorded below a structure
C7_Witness ==
    /\ Extracted
    /\ \E r \in Reached(data, <<>>, TRUE) :
          /\ IsStringInfo(r.info)
          /\ TheOne(r.info.data_type).internal_tags # {}
          /\ Len(r.path) > 2
          /\ HasKey(tags.tag_list, r.path)

---------------------------------------------------------------------------
(* Tree builder *)

Digit(d) == <<"0","1","2","3","4","5","6","7","8","9">>[d + 1]

RECURSIVE ToStr(_)
\* str(d) of a non-negative int
ToStr(d) == IF d < 10 THEN <<Digit(d)>> ELSE ToStr(d \div 10) \o <<Digit(d % 10)>>

RECURSIVE PositiveDims(_)
\* [str(d) for d in dims if d > 0]
PositiveDims(dims) ==
    IF dims = <<>> THEN <<>>
    ELSE (IF dims[1] > 0 THEN <<ToStr(dims[1])>> ELSE <<>>) \o PositiveDims(Tail(dims))

\* the mutant of format_dimension_label: every slot is printed, zeros too
format_dimension_label_AllSlots(name, dims) ==
    IF dims = <<0, 0, 0>> THEN name
    ELSE name \o <<"[">> \o Join(<<",">>, [i \in 1..Len(dims) |-> ToStr(dims[i])]) \o <<"]">>

format_dimension_label(name, dims) ==
    IF dims = <<0, 0, 0>> THEN name
    ELSE name \o <<"[">> \o Join(<<",">>, PositiveDims(dims)) \o <<"]">>

\* item.setToolTip(f'{full_path}({meta["data_type"]})')
ToolTip(full_path, data_type) == full_path \o <<"(">> \o data_type \o <<")">>

\* a QStandardItem: its text, its Qt.UserRole data and tool tip (unset: {}),
\* and the item it was appended to (0: the invisible root item)
Item(text, dataOpt, tipOpt, parent) ==
    [text |-> text, data |-> dataOpt, toolTip |-> tipOpt, parent |-> parent]

\* the mutant of IsLeaf: the index is compared with the length as if it
\* started at 1 where enumerate starts at 0
IsLeaf_OffByOne(i, parts) == i - 1 = Len(parts)

\* is_leaf = (i == len(parts) - 1), i the part's index from 0; here from 1
IsLeaf(i, parts) == i = Len(parts)

\* the mutant of UserRoleData: the segment is stored where the path belongs
UserRoleData_Part(full_path, part, meta) == <<part, meta.dimensions>>

\* item.setData((full_path, meta["dimensions"]), role=Qt.UserRole)
UserRoleData(full_path, part, meta) == <<full_path, meta.dimensions>>

\* the mutant of CumulativePath: the segment alone, whatever is above it
CumulativePath_PartOnly(current_path, part) == part

\* current_path = f"{current_path}.{part}" if current_path else part
CumulativePath(current_path, part) ==
    IF current_path # <<>> THEN current_path \o Dot \o part ELSE part

RECURSIVE BuildParts(_, _, _, _, _, _, _)
\* the inner loop of build_tag_tree_model from the i-th part on; st holds the
\* items of the model and node_map (path -> index of its item)
BuildParts(st, full_path, meta, parts, i, current_path, parent) ==
    IF i > Len(parts) THEN st
    ELSE
    LET part == parts[i]
        path == CumulativePath(current_path, part)
        is_leaf == IsLeaf(i, parts)
        label == IF is_leaf THEN format_dimension_label(part, meta.dimensions) ELSE part
        item == IF is_leaf
                THEN Item(label, {UserRoleData(full_path, part, meta)},
                          {ToolTip(full_path, meta.data_type)}, parent)
                ELSE Item(label, {}, {}, parent)
        st2 == IF ~HasKey(st.node_map, path)
               THEN [items |-> Append(st.items, item),
                     node_map |-> DictSet(st.node_map, path, Len(st.items) + 1)]
               ELSE st
    IN  BuildParts(st2, full_path, meta, parts, i + 1, path, Get(st2.node_map, path))

RECURSIVE BuildEntries(_, _, _)
\* the outer loop of build_tag_tree_model from the i-th entry on
BuildEntries(st, d, i) ==
    IF i > Len(d) THEN st
    ELSE BuildEntries(
             BuildParts(st, d[i].key, d[i].value, Split(d[i].key), 1, <<>>, 0),
             d, i + 1)

\* the items of the model build_tag_tree_model returns, in creation order
build_tag_tree_model(d) ==
    BuildEntries([items |-> <<>>, node_map |-> <<>>], d, 1).items

---------------------------------------------------------------------------
(* The model's indexes: an item is named by its row under its parent *)

ChildrenOf(items, p) == {k \in 1..Len(items) : items[k].parent = p}

\* model.rowCount(index)
rowCount(items, p) == Cardinality(ChildrenOf(items, p))

\* model.index(row, 0, parent): appendRow puts an item after its siblings
ModelIndex(items, row, p) ==
    CHOOSE k \in ChildrenOf(items, p) :
        Cardinality({j \in ChildrenOf(items, p) : j < k}) = row

RowOf(items, k) ==
    Cardinality({j \in ChildrenOf(items, items[k].parent) : j < k})

---------------------------------------------------------------------------
(* Filter *)

LowerCase(c) ==
    CASE c = "A" -> "a" [] c = "B" -> "b" [] c = "C" -> "c" [] c = "D" -> "d"
      [] c = "E" -> "e" [] c = "F" -> "f" [] c = "G" -> "g" [] c = "H" -> "h"
      [] c = "I" -> "i" [] c = "J" -> "j" [] c = "K" -> "k" [] c = "L" -> "l"
      [] c = "M" -> "m" [] c = "N" -> "n" [] c = "O" -> "o" [] c = "P" -> "p"
      [] c = "Q" -> "q" [] c = "R" -> "r" [] c = "S" -> "s" [] c = "T" -> "t"
      [] c = "U" -> "u" [] c = "V" -> "v" [] c = "W" -> "w" [] c = "X" -> "x"
      [] c = "Y" -> "y" [] c = "Z" -> "z" [] OTHER -> c

\* the mutant of HasMatch: an empty pattern matches nothing
HasMatch_NotEmpty(pat, text) ==
    /\ pat # <<>>
    /\ \E off \in 0..(Len(text) - Len(pat)) :
          \A j \in 1..Len(pat) : LowerCase(text[off + j]) = LowerCase(pat[j])

\* pattern.match(text).hasMatch() for the pattern setFilterFixedString makes
\* of pat (escaped, so matched literally) under Qt.CaseInsensitive: pat occurs
\* in text at some offset, letter case ignored
HasMatch(pat, text) ==
    \E off \in 0..(Len(text) - Len(pat)) :
        \A j \in 1..Len(pat) : LowerCase(text[off + j]) = LowerCase(pat[j])

RECURSIVE AncestorMatches(_, _, _)
\* the mutant of ParentMatches: any ancestor's text may match
AncestorMatches(items, pat, source_parent) ==
    /\ source_parent # 0
    /\ \/ HasMatch(pat, items[source_parent].text)
       \/ AncestorMatches(items, pat, items[source_parent].parent)

\* if source_parent.isValid(): ... pattern.match(parent_text).hasMatch()
ParentMatches(items, pat, source_parent) ==
    /\ source_parent # 0
    /\ HasMatch(pat, items[source_parent].text)

\* the mutant of filterAcceptsRow: the children are tested by their own text
\* only, without the recursive call
filterAcceptsRow_ChildText(items, pat, source_row, source_parent) ==
    LET index == ModelIndex(items, source_row, source_parent)
    IN  \/ HasMatch(pat, items[index].text)
        \/ \E i \in 0..(rowCount(items, index) - 1) :
               HasMatch(pat, items[ModelIndex(items, i, index)].text)
        \/ ParentMatches(items, pat, source_parent)

RECURSIVE filterAcceptsRow(_, _, _, _)
filterAcceptsRow(items, pat, source_row, source_parent) ==
    LET index == ModelIndex(items, source_row, source_parent)
    IN  \/ HasMatch(pat, items[index].text)
        \/ \E i \in 0..(rowCount(items, index) - 1) :
               filterAcceptsRow(items, pat, i, index)
        \/ ParentMatches(items, pat, source_parent)

\* the decision for item k of the model
Accepts(items, pat, k) == filterAcceptsRow(items, pat, RowOf(items, k), items[k].parent)

---------------------------------------------------------------------------
(* SpecTree: build_tag_tree_model applied to every flat catalog of at most *)
(* MaxEntries entries over the paths and metadata below, and the filter    *)
(* applied to the tree under every pattern of at most MaxPatternLen        *)
(* characters, typed into the filter box one edit at a time.  Path         *)
(* segments are not empty, as tag and member names are.                    *)

CatalogPaths ==
    { <<"a">>, <<"a",".","b">>, <<"a",".","b",".","c">>,
      <<"B",".","b">>, <<"c",".","b",".","a","b">> }

Metas == { Meta(TyDINT, <<0, 0, 0>>, FALSE), Meta(TyUDT, <<3, 2, 0>>, TRUE) }

PatternChars == {"a", "B", "["}

\* the texts one edit of the filter box makes of text: a character typed at
\* the end, the last character deleted, the box cleared
EditedTexts(text, chars) ==
    {Append(text, c) : c \in {x \in chars : Len(text) < MaxPatternLen}}
    \cup {SubSeq(text, 1, Len(text) - 1) : x \in {y \in {1} : Len(text) > 0}}
    \cup {<<>>}

InitTree == Init

\* the catalog gets one more entry
CatalogGains ==
    /\ lastOp = "init"
    /\ Len(tag_dict) < MaxEntries
    /\ \E path \in CatalogPaths \ Keys(tag_dict) :
       \E meta \in Metas :
           tag_dict' = Append(tag_dict, [key |-> path, value |-> meta])
    /\ UNCHANGED runVars
    /\ UNCHANGED <<data, tags, model, proxy_model, tree_filter, pattern,
                   fault_tags, fault_tags_list, lastOp, prevOp>>

\* model = build_tag_tree_model(tags), behind a new proxy (no pattern yet)
BuildTree ==
    /\ lastOp = "init"
    /\ model' = build_tag_tree_model(tag_dict)
    /\ proxy_model' = "proxy"
    /\ pattern' = <<>>
    /\ lastOp' = "build_tag_tree_model"
    /\ prevOp' = lastOp
    /\ UNCHANGED runVars
    /\ UNCHANGED <<data, tags, tag_dict, tree_filter, fault_tags, fault_tags_list>>

\* tree_filter.textChanged -> proxy_model.setFilterFixedString
FilterEdited(chars) ==
    /\ \E text \in EditedTexts(tree_filter, chars) :
           /\ tree_filter' = text
           /\ pattern' = IF proxy_model = "proxy" THEN text ELSE pattern
    /\ lastOp' = "setFilterFixedString"
    /\ prevOp' = lastOp
    /\ UNCHANGED runVars
    /\ UNCHANGED <<data, tags, tag_dict, model, proxy_model, fault_tags, fault_tags_list>>

setFilterFixedString ==
    /\ proxy_model = "proxy"
    /\ FilterEdited(PatternChars)

NextTree == CatalogGains \/ BuildTree \/ setFilterFixedString

SpecTree == InitTree /\ [][NextTree]_vars

---------------------------------------------------------------------------
(* What the tree builder's and the filter's claims say *)

Built == proxy_model = "proxy"

RECURSIVE Subtree(_, _)
\* item k and the items below it
Subtree(items, k) == {k} \cup UNION {Subtree(items, c) : c \in ChildrenOf(items, k)}

RECURSIVE AncestorsOf(_, _)
AncestorsOf(items, k) ==
    IF items[k].parent = 0 THEN {}
    ELSE {items[k].parent} \cup AncestorsOf(items, items[k].parent)

\* what an item with data says of its catalog entry: the path and dimensions
\* of its Qt.UserRole data, and the data type its tool tip shows after the path
EntryOf(items, k) ==
    LET d == TheOne(items[k].data)
        tip == TheOne(items[k].toolTip)
    IN  [key |-> d[1],
         value |-> [data_type |-> SubSeq(tip, Len(d[1]) + 2, Len(tip) - 1),
                    dimensions |-> d[2]]]

RECURSIVE Flatten(_, _, _)
\* the entries of the items under p from row `row` on, depth-first
Flatten(items, p, row) ==
    IF row >= rowCount(items, p) THEN <<>>
    ELSE LET k == ModelIndex(items, row, p)
         IN  (IF items[k].data # {} THEN <<EntryOf(items, k)>> ELSE <<>>)
             \o Flatten(items, k, 0)
             \o Flatten(items, p, row + 1)

\* the catalog's entries without the structure flag, which no item keeps
Stored(d) ==
    { [key |-> d[i].key,
       value |-> [data_type |-> d[i].value.data_type,
                  dimensions |-> d[i].value.dimensions]] : i \in 1..Len(d) }

\* entry j's path runs through entry i's path
Beneath(d, j, i) == StartsWith(d[j].key, d[i].key \o Dot)

\* no path comes after a longer path it is a prefix of
PrefixFirst(d) == \A i, j \in 1..Len(d) : Beneath(d, j, i) => i < j

RoundTrip ==
    /\ Range(Flatten(model, 0, 0)) = Stored(tag_dict)
    /\ Len(Flatten(model, 0, 0)) = Len(tag_dict)

\* C2 as stated, for the metadata the tree keeps (path, data type,
\* dimensions): flattening the tree depth-first yields exactly the catalog.
\* (Violated: an entry that comes after a longer path it is a prefix of finds
\* its item made already, without data.  The structure flag is kept nowhere.)
C2_RoundTrip == Built => RoundTrip

\* C2 amended: the round trip holds, for path, data type and dimensions, of
\* every catalog in which no path comes after a longer path it is a prefix of.
C2_RoundTripPrefixFirst == (Built /\ PrefixFirst(tag_dict)) => RoundTrip

\* a structure before its member, and a third entry
C2_Witness ==
    /\ Built
    /\ PrefixFirst(tag_dict)
    /\ Len(tag_dict) = 3
    /\ \E i, j \in 1..Len(tag_dict) : Beneath(tag_dict, j, i)
    /\ \E i \in 1..Len(tag_dict) : tag_dict[i].value.dimensions # <<0, 0, 0>>

\* C3 as stated: no item both carries data and owns children.  (Violated: an
\* entry listed before its members gets its data, then the members' items.)
C3_LeafOrGroup ==
    Built => \A k \in 1..Len(model) :
                 ~(model[k].data # {} /\ ChildrenOf(model, k) # {})

\* C3 amended: every item carries data or owns children, possibly both: an
\* item without children carries the path of a catalog entry, an item without
\* data owns children, and an entry that is a prefix of later entries (and of
\* no earlier one) is an item that carries its data and owns children.
C3_DataOrChildren ==
    Built =>
        /\ \A k \in 1..Len(model) :
               /\ model[k].data # {} \/ ChildrenOf(model, k) # {}
               /\ model[k].data # {} => TheOne(model[k].data)[1] \in Keys(tag_dict)
        /\ \A i \in 1..Len(tag_dict) :
               (/\ \E j \in 1..Len(tag_dict) : j > i /\ Beneath(tag_dict, j, i)
                /\ \A j \in 1..Len(tag_dict) : Beneath(tag_dict, j, i) => j > i)
               => \E k \in 1..Len(model) :
                      /\ model[k].data = {<<tag_dict[i].key, tag_dict[i].value.dimensions>>}
                      /\ ChildrenOf(model, k) # {}

\* a structure entry before its member: an item with data and a child
C3_Witness ==
    /\ Built
    /\ \E k \in 1..Len(model) : model[k].data # {} /\ ChildrenOf(model, k) # {}
    /\ \E k \in 1..Len(model) : model[k].data = {} /\ ChildrenOf(model, k) # {}

\* C1: an item is accepted if and only if (a) its text matches, or (b) one of
\* its children is accepted, or (c) it has a parent item whose text matches;
\* that is, if and only if some item of its subtree matches or its parent
\* matches.  A matching grandparent alone does not make it accepted.
C1_ThreeWayRule ==
    Built =>
        \A k \in 1..Len(model) :
            /\ Accepts(model, pattern, k) <=>
                   \/ HasMatch(pattern, model[k].text)
                   \/ \E c \in ChildrenOf(model, k) : Accepts(model, pattern, c)
                   \/ model[k].parent # 0 /\ HasMatch(pattern, model[model[k].parent].text)
            /\ Accepts(model, pattern, k) <=>
                   \/ \E d \in Subtree(model, k) : HasMatch(pattern, model[d].text)
                   \/ model[k].parent # 0 /\ HasMatch(pattern, model[model[k].parent].text)

\* an item that is not accepted although its grandparent matches, while its
\* parent is accepted by rule (c) alone
C1_Witness ==
    /\ Built
    /\ \E k \in 1..Len(model) :
          /\ model[k].parent # 0
          /\ model[model[k].parent].parent # 0
          /\ HasMatch(pattern, model[model[model[k].parent].parent].text)
          /\ ~HasMatch(pattern, model[model[k].parent].text)
          /\ Accepts(model, pattern, model[k].parent)
          /\ ~Accepts(model, pattern, k)

\* C8: under the empty pattern every item is accepted.
C8_EmptyPatternAcceptsAll ==
    (Built /\ pattern = <<>>) =>
        \A k \in 1..Len(model) : Accepts(model, pattern, k) = TRUE

\* the empty pattern, set again after another one, on a tree three deep
C8_Witness ==
    /\ lastOp = "setFilterFixedString"
    /\ pattern = <<>>
    /\ \E k \in 1..Len(model) : Cardinality(AncestorsOf(model, k)) = 2
    /\ \A k \in 1..Len(model) : Accepts(model, pattern, k)

\* C9: every ancestor of an accepted item is accepted.
C9_AncestorsAccepted ==
    Built =>
        \A k \in 1..Len(model) :
            Accepts(model, pattern, k) =>
                \A a \in AncestorsOf(model, k) : Accepts(model, pattern, a)

\* an item two levels down accepted by its own text only, under ancestors
\* whose texts do not match, and an item accepted by its parent's text
C9_Witness ==
    /\ Built
    /\ \E k \in 1..Len(model) :
          /\ Cardinality(AncestorsOf(model, k)) = 2
          /\ HasMatch(pattern, model[k].text)
          /\ \A a \in AncestorsOf(model, k) :
                 ~HasMatch(pattern, model[a].text) /\ Accepts(model, pattern, a)
    /\ \E k \in 1..Len(model) :
          /\ ~HasMatch(pattern, model[k].text)
          /\ ChildrenOf(model, k) = {}
          /\ Accepts(model, pattern, k)

---------------------------------------------------------------------------
(* Selection collector and accumulator *)

\* the sequences of at most n distinct elements of S
DistinctSeqs(S, n) ==
    UNION { {q \in [1..k -> S] : \A i, j \in 1..k : q[i] = q[j] => i = j} : k \in 0..n }

\* the rows the view shows: the items the proxy accepts
VisibleItems(items, pat) == {k \in 1..Len(items) : Accepts(items, pat, k)}

RECURSIVE SelectedTags(_, _, _)
\* the loop of handle_tag_selection over the selected indexes from the i-th
\* on: item.data(Qt.UserRole) of every selected item that has data
SelectedTags(items, indexes, i) ==
    IF i > Len(indexes) THEN <<>>
    ELSE (IF items[indexes[i]].data # {}
          THEN <<TheOne(items[indexes[i]].data)>>
          ELSE <<>>)
         \o SelectedTags(items, indexes, i + 1)

\* the mutant of AppendIfAbsent: the membership test is left out
AppendAlways(list, tag) == Append(list, tag)

\* if tag not in self.fault_tags_list: self.fault_tags_list.append(tag)
AppendIfAbsent(list, tag) == IF tag \in Range(list) THEN list ELSE Append(list, tag)

RECURSIVE AddFaultTags(_, _, _)
\* the loop of add_fault_tag_clicked from the i-th pending tag on
AddFaultTags(pending, list, i) ==
    IF i > Len(pending) THEN list
    ELSE AddFaultTags(pending, AppendIfAbsent(list, pending[i]), i + 1)

---------------------------------------------------------------------------
(* Spec: the main window's tag handlers, clicked in any order.  The PLC    *)
(* answers get_tags_from_plc with one of the payloads below, or not at all. *)

SessionPayloads ==
    { << [key |-> <<"a">>,
          value |-> Struct(<< [key |-> <<"x">>, value |-> AtomicArray],
                              [key |-> <<"_","h">>, value |-> AtomicScalar] >>)] >>,
      << [key |-> <<"a">>, value |-> AtomicArray],
         [key |-> <<"_","t">>, value |-> StringStruct] >>,
      << [key |-> <<"a">>, value |-> NoTagType] >> }

SessionChars == {"x"}

Ran(op) == lastOp' = op /\ prevOp' = lastOp

\* get_tags_clicked with an empty ip_input: nothing is done
get_tags_clicked_NoIp ==
    /\ Ran("get_tags_clicked")
    /\ UNCHANGED runVars
    /\ UNCHANGED <<data, tags, tag_dict, model, proxy_model, tree_filter, pattern,
                   fault_tags, fault_tags_list>>

\* get_tags_clicked when get_tags_from_plc returns None (no connection, or
\* the payload made it raise): build_tag_tree_model(None) raises
\* AttributeError and the handler ends there, the proxy in use kept
get_tags_clicked_None ==
    /\ \E connected \in BOOLEAN :
       \E d \in SessionPayloads :
           /\ data' = IF connected THEN d ELSE data
           /\ tags' = IF connected THEN get_tags_from_plc(d) ELSE NoTags
    /\ tags'.none
    /\ Ran("get_tags_clicked")
    /\ UNCHANGED runVars
    /\ UNCHANGED <<tag_dict, model, proxy_model, tree_filter, pattern, fault_tags,
                   fault_tags_list>>

\* get_tags_clicked: the tree is built anew behind a new proxy, which has no
\* pattern whatever the filter box shows
get_tags_clicked ==
    /\ \E d \in SessionPayloads :
           /\ data' = d
           /\ tags' = get_tags_from_plc(d)
    /\ ~tags'.none
    /\ tag_dict' = tags'.tag_list
    /\ model' = build_tag_tree_model(tags'.tag_list)
    /\ proxy_model' = "proxy"
    /\ pattern' = <<>>
    /\ Ran("get_tags_clicked")
    /\ UNCHANGED runVars
    /\ UNCHANGED <<tree_filter, fault_tags, fault_tags_list>>

\* the filter box is edited
tree_filter_textChanged == FilterEdited(SessionChars)

\* tree.clicked -> handle_tag_selection, connected by get_tags_clicked
handle_tag_selection ==
    /\ proxy_model = "proxy"
    /\ \E indexes \in DistinctSeqs(VisibleItems(model, pattern), MaxSelected) :
           fault_tags' = SelectedTags(model, indexes, 1)
    /\ Ran("handle_tag_selection")
    /\ UNCHANGED runVars
    /\ UNCHANGED <<data, tags, tag_dict, model, proxy_model, tree_filter, pattern,
                   fault_tags_list>>

add_fault_tag_clicked ==
    /\ fault_tags_list' = AddFaultTags(fault_tags, fault_tags_list, 1)
    /\ Ran("add_fault_tag_clicked")
    /\ UNCHANGED runVars
    /\ UNCHANGED <<data, tags, tag_dict, model, proxy_model, tree_filter, pattern,
                   fault_tags>>

Next ==
    \/ get_tags_clicked_NoIp
    \/ get_tags_clicked_None
    \/ get_tags_clicked
    \/ tree_filter_textChanged
    \/ handle_tag_selection
    \/ add_fault_tag_clicked

Spec == Init /\ [][Next]_vars

---------------------------------------------------------------------------
(* What the accumulator's claims say *)

IsPrefix(p, q) == Len(p) <= Len(q) /\ SubSeq(q, 1, Len(p)) = p

---------------------------------------------------------------------------
(* What the selection collector's claims say *)

RECURSIVE SelectedPaths(_, _, _)
\* the full dotted paths of the selected items that have data, in the
\* order of the selection
SelectedPaths(items, indexes, i) ==
    IF i > Len(indexes) THEN <<>>
    ELSE (IF items[indexes[i]].data # {}
          THEN <<TheOne(items[indexes[i]].data)[1]>>
          ELSE <<>>)
         \o SelectedPaths(items, indexes, i + 1)

\* Python's == on values that may differ in type (a str is never equal to
\* a tuple), taken on the values' printed forms
PyEqual(v, w) == ToString(v) = ToString(w)

\* C11: handle_tag_selection returns, and leaves pending for the
\* accumulator, the full dotted path strings of the selected items that
\* have data, in the order of the selection, items without data skipped.
\* (Violated: the elements are the (path, dimensions) pairs the items hold.)
C11_CollectsPathStrings ==
    [][ lastOp' = "handle_tag_selection" =>
          \E indexes \in DistinctSeqs(VisibleItems(model, pattern), MaxSelected) :
              /\ Len(fault_tags') = Len(SelectedPaths(model, indexes, 1))
              /\ PyEqual(fault_tags', SelectedPaths(model, indexes, 1))
      ]_vars

\* the path an entry of the accumulator names
PathOfEntry(e) == e[1]

\* C12: the accumulator never holds a tag path twice, every step leaves what
\* it held as a prefix of what it holds, and get_tags_clicked, whether the
\* tree is rebuilt or not, leaves it as it was.
\* (Violated: a path selected before and after a discovery that changed its
\* dimensions is held twice.  The prefix and get_tags_clicked parts hold.)
C12_AppendOnlyNoDuplicates ==
    /\ [](\A i, j \in 1..Len(fault_tags_list) :
              PathOfEntry(fault_tags_list[i]) = PathOfEntry(fault_tags_list[j])
                  => i = j)
    /\ [][ /\ IsPrefix(fault_tags_list, fault_tags_list')
           /\ lastOp' = "get_tags_clicked" => fault_tags_list' = fault_tags_list
         ]_vars

\* C12, the parts the handlers keep: no element twice, append-only, and
\* unchanged by get_tags_clicked
AccumulatorAppendOnly ==
    /\ [](\A i, j \in 1..Len(fault_tags_list) :
              fault_tags_list[i] = fault_tags_list[j] => i = j)
    /\ [][ /\ IsPrefix(fault_tags_list, fault_tags_list')
           /\ lastOp' = "get_tags_clicked" => fault_tags_list' = fault_tags_list
         ]_vars

---------------------------------------------------------------------------
(* What the claims on labels and on the tree's shape say *)

\* the dimension values and names the label is computed for
DimValues == {0, 2, 3, 5, 12}

LabelNames == { <<"C">>, <<"a","b">> }

\* the label as the claim words it: the name alone for [0,0,0]; otherwise
\* the name, '[', the positive values in slot order with ',' between, ']'
LabelOf(name, dims) ==
    LET pos == SelectSeq(dims, LAMBDA d : d > 0)
        listed == CASE Len(pos) = 1 -> ToStr(pos[1])
                    [] Len(pos) = 2 -> ToStr(pos[1]) \o <<",">> \o ToStr(pos[2])
                    [] Len(pos) = 3 -> ToStr(pos[1]) \o <<",">> \o ToStr(pos[2])
                                           \o <<",">> \o ToStr(pos[3])
    IN  IF Len(pos) = 0 THEN name ELSE name \o <<"[">> \o listed \o <<"]">>

\* the name a node shows: its text up to the '[' of the dimensions
SegmentOf(text) ==
    LET at == {i \in 1..Len(text) : text[i] = "["}
    IN  IF at = {} THEN text
        ELSE SubSeq(text, 1, (CHOOSE i \in at : \A j \in at : i <= j) - 1)

RECURSIVE NodesAt(_, _, _, _)
\* the nodes reached from p by the names segs[i], segs[i+1], ...
NodesAt(items, segs, i, p) ==
    IF i > Len(segs) THEN {p}
    ELSE UNION { NodesAt(items, segs, i + 1, k) :
                   k \in {c \in ChildrenOf(items, p) : SegmentOf(items[c].text) = segs[i]} }

LastOf(q) == q[Len(q)]

\* the node of entry i's full path shows text
EntryShows(d, items, i, text) ==
    LET at == NodesAt(items, Split(d[i].key), 1, 0)
    IN  at # {} /\ \A k \in at : items[k].text = text

LabelRule ==
    /\ format_dimension_label(<<"C">>, <<5, 0, 0>>) = <<"C", "[", "5", "]">>
    /\ format_dimension_label(<<"C">>, <<0, 0, 0>>) = <<"C">>
    /\ format_dimension_label(<<"C">>, <<3, 2, 0>>) = <<"C", "[", "3", ",", "2", "]">>
    /\ \A name \in LabelNames : \A dims \in [1..3 -> DimValues] :
           format_dimension_label(name, dims) = LabelOf(name, dims)

\* C13 as stated: the label is the name, followed for dimensions other than
\* [0,0,0] by the positive dimensions in brackets, and the node of every
\* catalog entry's full path shows the label of the entry's own dimensions.
\* (Violated: the node of an entry that comes after a longer path through
\* it was made as a group and shows the bare name.)
C13_LabelFromOwnDimensions ==
    /\ LabelRule
    /\ Built =>
         \A i \in 1..Len(tag_dict) :
             EntryShows(tag_dict, model, i,
                        LabelOf(LastOf(Split(tag_dict[i].key)),
                                tag_dict[i].value.dimensions))

\* no earlier entry's path runs through entry i's path
MadeByEntry(d, i) == \A j \in 1..(i - 1) : ~Beneath(d, j, i)

\* C13 amended: the same, for every entry that no earlier entry's path runs
\* through; the node of any other entry shows the bare name.
C13_LabelFromOwnDimensionsWhenMade ==
    /\ LabelRule
    /\ Built =>
         \A i \in 1..Len(tag_dict) :
             EntryShows(tag_dict, model, i,
                        IF MadeByEntry(tag_dict, i)
                        THEN LabelOf(LastOf(Split(tag_dict[i].key)),
                                     tag_dict[i].value.dimensions)
                        ELSE LastOf(Split(tag_dict[i].key)))

\* a tree of three entries with dimensions [3,2,0]: one made by its own
\* entry below a group, showing b[3,2], one found made, showing the bare name
C13_Witness ==
    /\ Built
    /\ Len(tag_dict) = 3
    /\ \A i \in 1..3 : tag_dict[i].value.dimensions = <<3, 2, 0>>
    /\ \E i \in 1..3 :
          /\ MadeByEntry(tag_dict, i)
          /\ Len(Split(tag_dict[i].key)) = 2
          /\ EntryShows(tag_dict, model, i, <<"b", "[", "3", ",", "2", "]">>)
    /\ \E i \in 1..3 :
          /\ ~MadeByEntry(tag_dict, i)
          /\ EntryShows(tag_dict, model, i, <<"a">>)

\* the cumulative prefixes of the catalog's paths, as sequences of segments
Prefixes(d) ==
    UNION { { SubSeq(Split(d[i].key), 1, n) : n \in 1..Len(Split(d[i].key)) } :
              i \in 1..Len(d) }

RECURSIVE SegmentsTo(_, _)
\* the names on the way from the root to item k
SegmentsTo(items, k) ==
    IF items[k].parent = 0 THEN <<SegmentOf(items[k].text)>>
    ELSE Append(SegmentsTo(items, items[k].parent), SegmentOf(items[k].text))

\* the first entry, in the catalog's order, whose path runs through prefix p
FirstMention(d, p) ==
    CHOOSE i \in 1..Len(d) :
        /\ IsPrefix(p, Split(d[i].key))
        /\ \A j \in 1..(i - 1) : ~IsPrefix(p, Split(d[j].key))

\* C14: the tree has exactly one node for each cumulative prefix of the
\* catalog's paths and no other node, every node hangs under the node of
\* its immediate prefix, and the children of a node (the root too) stand in
\* the order in which the catalog first mentions their prefixes.
C14_OneNodePerPrefixInCatalogOrder ==
    Built =>
      /\ \A p \in Prefixes(tag_dict) :
             Cardinality({k \in 1..Len(model) : SegmentsTo(model, k) = p}) = 1
      /\ \A k \in 1..Len(model) :
             /\ SegmentsTo(model, k) \in Prefixes(tag_dict)
             /\ NodesAt(model, SegmentsTo(model, k), 1, 0) = {k}
             /\ NodesAt(model,
                        SubSeq(SegmentsTo(model, k), 1,
                               Len(SegmentsTo(model, k)) - 1),
                        1, 0) = {model[k].parent}
      /\ \A j, k \in 1..Len(model) :
             (j # k /\ model[j].parent = model[k].parent) =>
                 (RowOf(model, j) < RowOf(model, k)
                    <=> FirstMention(tag_dict, SegmentsTo(model, j))
                          < FirstMention(tag_dict, SegmentsTo(model, k)))

\* three entries over five prefixes: a prefix two paths share, the name b
\* under two parents, and the root's children a then B as the catalog
\* mentions them, not as sorting would put them
C14_Witness ==
    /\ Built
    /\ Len(tag_dict) = 3
    /\ Len(model) = 5
    /\ \E p \in Prefixes(tag_dict) :
           Cardinality({i \in 1..3 : IsPrefix(p, Split(tag_dict[i].key))}) = 2
    /\ \E j, k \in 1..5 :
           /\ model[j].parent # model[k].parent
           /\ SegmentOf(model[j].text) = <<"b">>
           /\ SegmentOf(model[k].text) = <<"b">>
    /\ rowCount(model, 0) = 2
    /\ SegmentOf(model[ModelIndex(model, 0, 0)].text) = <<"a">>
    /\ SegmentOf(model[ModelIndex(model, 1, 0)].text) = <<"B">>

---------------------------------------------------------------------------
(* SpecRun: the run and downtime buttons, clicked in any order the         *)
(* buttons' enabled states allow, while the clock runs.                    *)

InitRun == Init

\* half a second passes
Tick ==
    /\ now < MaxTime
    /\ now' = now + 1
    /\ UNCHANGED <<events, temp_start_time, logging_downtime, downtime_model,
                   run_start_time, start_button, stop_button, pause_button,
                   downtime_button>>
    /\ UNCHANGED <<tagVars, lastOp, prevOp>>

start_clicked ==
    /\ start_button
    /\ downtime_button' = TRUE
    /\ start_button' = FALSE
    /\ pause_button' = TRUE
    /\ stop_button' = TRUE
    /\ events' = <<>>
    /\ downtime_model' = DowntimeModel(round_to_nearest_second(now))
    /\ run_start_time' = {now}
    /\ Ran("start_clicked")
    /\ UNCHANGED <<now, temp_start_time, logging_downtime>>
    /\ UNCHANGED tagVars

stop_clicked ==
    /\ stop_button
    /\ start_button' = TRUE
    /\ downtime_button' = FALSE
    /\ pause_button' = FALSE
    /\ Ran("stop_clicked")
    /\ UNCHANGED <<now, events, temp_start_time, logging_downtime, downtime_model,
                   run_start_time, stop_button>>
    /\ UNCHANGED tagVars

downtime_clicked ==
    /\ downtime_button
    /\ IF ~logging_downtime
       THEN /\ temp_start_time' = {round_to_nearest_second(now)}
            /\ logging_downtime' = TRUE
            /\ UNCHANGED events
       ELSE /\ Len(events) < MaxEvents
            /\ events' = Append(events,
                                DowntimeEvent(TheOne(temp_start_time),
                                              round_to_nearest_second(now), <<>>, FALSE))
            /\ logging_downtime' = FALSE
            /\ UNCHANGED temp_start_time
    /\ Ran("downtime_clicked")
    /\ UNCHANGED <<now, downtime_model, run_start_time, start_button, stop_button,
                   pause_button, downtime_button>>
    /\ UNCHANGED tagVars

NextRun == Tick \/ start_clicked \/ stop_clicked \/ downtime_clicked

SpecRun == InitRun /\ [][NextRun]_vars

\* C15: every downtime event in the ledger starts no earlier than the run
\* of the DowntimeModel in use.
\* (Violated: start_clicked clears the ledger and leaves logging_downtime
\* and temp_start_time as they were, so a downtime opened in one run is
\* closed into the ledger of the next.)
C15_EventsStartWithinRun ==
    \A i \in 1..Len(events) :
        events[i].start_time >= downtime_model.run_start_time

=============================================================================
